---------------------------- MODULE Spec2Model ----------------------------
(***************************************************************************)
(* A model of the RAG pipeline: the JSON loader (json_processor.py), the   *)
(* chunker and vector index (vector_store.py), and the query engine and    *)
(* interactive shell (rag_pipeline.py).                                    *)
(*                                                                         *)
(* Text is a sequence of one-character strings.  Each component has its    *)
(* own specification (SpecChunk, SpecStore, SpecLoad, SpecQuery,           *)
(* SpecShell); a specification leaves the other components' variables      *)
(* at their initial values.                                                *)
(***************************************************************************)
EXTENDS Integers, Sequences, FiniteSets, TLC

VARIABLES
  \* VectorStore.chunk_text, one call
  ct_pc, ct_text, ct_size, ct_overlap, ct_tokens, ct_i, ct_windows, ct_chunks,
  \* VectorStore: the persisted collection, and the last add_documents call
  \* (its argument, the ids it generated, what it returned, whether its
  \* argument was that of the call before it)
  st_collection, st_outcome, st_docs, st_ids, st_ret, st_repeat,
  \* load_publications_from_json, one call: the file it is given, the parsed
  \* data, the loop position, the documents list, the exception raised inside
  \* the try block (if any) and the returned list
  ld_pc, ld_file, ld_data, ld_k, ld_documents, ld_exc, ld_result,
  \* GroqRAGSystem.query, one call: its arguments, its locals, what the index
  \* handed to search, what the LLM call did, and the returned pair
  q_pc, q_question, q_n, q_search_results, q_index_results, q_context, q_prompt,
  q_llm, q_ret,
  \* main's loop: the lines still to be typed, the lines read so far, the
  \* stripped line being handled, the outcome of each turn, how the loop ended
  sh_pc, sh_input, sh_read, sh_question, sh_turns, sh_exit

ct_vars == <<ct_pc, ct_text, ct_size, ct_overlap, ct_tokens, ct_i, ct_windows, ct_chunks>>
st_vars == <<st_collection, st_outcome, st_docs, st_ids, st_ret, st_repeat>>

ld_vars == <<ld_pc, ld_file, ld_data, ld_k, ld_documents, ld_exc, ld_result>>

q_vars == <<q_pc, q_question, q_n, q_search_results, q_index_results, q_context,
            q_prompt, q_llm, q_ret>>
sh_vars == <<sh_pc, sh_input, sh_read, sh_question, sh_turns, sh_exit>>

vars == <<ct_vars, st_vars, ld_vars, q_vars, sh_vars>>

--------------------------------------------------------------------------
(* Bounds of the model *)

MaxTextLen == 7
MaxChunkSize == 3
MaxOverlap == 3
MaxBatch == 2
MaxRecords == 3
MaxResults == 3
MaxLines == 3

--------------------------------------------------------------------------
(* Generic helpers *)

Min(a, b) == IF a <= b THEN a ELSE b
Max(a, b) == IF a >= b THEN a ELSE b

Rep(c, n) == [k \in 1..n |-> c]

\* All sequences over S of length at most n.
SeqsUpTo(S, n) == UNION {[1..k -> S] : k \in 0..n}

\* Python's s[lo:hi] on a sequence (0-based, end exclusive, negative indices
\* counted from the end, everything clamped to the sequence).
SliceIndex(idx, n) == IF idx < 0 THEN Max(idx + n, 0) ELSE Min(idx, n)
Slice(s, lo, hi) == SubSeq(s, SliceIndex(lo, Len(s)) + 1, SliceIndex(hi, Len(s)))

\* Python's range(start, stop, step) membership test for the loop variable.
\* step = 0 is rejected by range() before the loop starts (ValueError).
InRangeWhile(i, stop, step) == i < stop
InRange(i, stop, step) == IF step > 0 THEN i < stop ELSE i > stop

--------------------------------------------------------------------------
(* The components at rest.  Each specification starts the components it    *)
(* does not exercise in these states and leaves them there.                *)

\* a collection that holds no record
EmptyCollection == <<>>

ChunkIdle ==
  /\ ct_pc = "idle" /\ ct_text = <<>> /\ ct_size = 1 /\ ct_overlap = 0
  /\ ct_tokens = <<>> /\ ct_i = 0 /\ ct_windows = <<>> /\ ct_chunks = <<>>

\* no add_documents call has been made on this VectorStore object
NoCallYet ==
  /\ st_outcome = "none"
  /\ st_docs = <<>>
  /\ st_ids = <<>>
  /\ st_ret = -1
  /\ st_repeat = FALSE

StoreIdle ==
  /\ st_collection = EmptyCollection
  /\ NoCallYet

LoadIdle ==
  /\ ld_pc = "idle" /\ ld_file = [kind |-> "missing", data |-> <<>>]
  /\ ld_data = <<>> /\ ld_k = 0 /\ ld_documents = <<>>
  /\ ld_exc = "none" /\ ld_result = <<>>

NoLlmCall == [kind |-> "none", text |-> ""]

QueryIdle ==
  /\ q_pc = "Off" /\ q_question = <<>> /\ q_n = 0
  /\ q_search_results = <<>> /\ q_index_results = <<>>
  /\ q_context = <<>> /\ q_prompt = <<>> /\ q_llm = NoLlmCall /\ q_ret = <<>>

ShellIdle ==
  /\ sh_pc = "off" /\ sh_input = <<>> /\ sh_read = <<>> /\ sh_question = <<>>
  /\ sh_turns = <<>> /\ sh_exit = "none"

ct_others == <<st_vars, ld_vars, q_vars, sh_vars>>
st_others == <<ct_vars, ld_vars, q_vars, sh_vars>>
ld_others == <<ct_vars, st_vars, q_vars, sh_vars>>
q_others == <<ct_vars, st_vars, ld_vars, sh_vars>>
sh_others == <<ct_vars, st_vars, ld_vars, q_vars>>

--------------------------------------------------------------------------
(* The tokenizer (tiktoken's cl100k_base, vector_store.py line 14),        *)
(* in miniature: a byte-pair encoding over the alphabet {a, b} with the    *)
(* single merge (a, b) -> ab.  Token 1 is "a", token 2 is "b", token 3     *)
(* is "ab".  encode applies the merge to every occurrence of the pair;     *)
(* decode concatenates the tokens' texts.                                  *)

Alphabet == {"a", "b"}
TokA == 1
TokB == 2
TokAB == 3

TokenText(t) == IF t = TokA THEN <<"a">> ELSE IF t = TokB THEN <<"b">> ELSE <<"a", "b">>

\* Occurrences of the pair (a, b) cannot overlap, so the encoding of a
\* text is the concatenation of the encodings of two parts of it, as long
\* as the cut does not fall inside a pair; the recursion halves the text.
RECURSIVE EncodeRange(_, _, _)
EncodeRange(text, lo, hi) ==
  IF lo > hi THEN <<>>
  ELSE IF lo = hi THEN <<IF text[lo] = "a" THEN TokA ELSE TokB>>
  ELSE IF hi = lo + 1 /\ text[lo] = "a" /\ text[hi] = "b" THEN <<TokAB>>
  ELSE LET m == (lo + hi) \div 2
           cut == IF text[m] = "a" /\ text[m + 1] = "b" THEN m - 1 ELSE m
       IN  EncodeRange(text, lo, cut) \o EncodeRange(text, cut + 1, hi)

encode(text) == EncodeRange(text, 1, Len(text))

RECURSIVE DecodeRange(_, _, _)
DecodeRange(tokens, lo, hi) ==
  IF lo > hi THEN <<>>
  ELSE IF lo = hi THEN TokenText(tokens[lo])
  ELSE LET m == (lo + hi) \div 2
       IN  DecodeRange(tokens, lo, m) \o DecodeRange(tokens, m + 1, hi)

decode(tokens) == DecodeRange(tokens, 1, Len(tokens))

count_tokens(text) == Len(encode(text))

--------------------------------------------------------------------------
(* VectorStore.chunk_text (vector_store.py lines 20-33)                    *)

\* range(0, len(tokens), chunk_size - overlap): the step of the loop.
RangeStepNoOverlap(chunk_size, overlap) == chunk_size
RangeStep(chunk_size, overlap) == chunk_size - overlap

\* chunk_tokens = tokens[i:i + chunk_size]
ChunkTokens(tokens, i, chunk_size) == Slice(tokens, i, i + chunk_size)

\* if i + chunk_size >= len(tokens): break
WindowReachesEndStrict(i, chunk_size, n) == i + chunk_size > n
WindowReachesEnd(i, chunk_size, n) == i + chunk_size >= n

\* The loop, from loop variable i on, as a function of what it has
\* collected; the result is the list the function returns.
RECURSIVE ChunkLoop(_, _, _, _, _)
ChunkLoop(tokens, i, chunk_size, overlap, chunks) ==
  IF ~InRange(i, Len(tokens), RangeStep(chunk_size, overlap)) THEN chunks
  ELSE LET more == Append(chunks, decode(ChunkTokens(tokens, i, chunk_size)))
       IN  IF WindowReachesEnd(i, chunk_size, Len(tokens)) THEN more
           ELSE ChunkLoop(tokens, i + RangeStep(chunk_size, overlap),
                          chunk_size, overlap, more)

\* The call as a whole: [raised |-> TRUE] is the ValueError of range() with
\* step 0, otherwise chunks is the returned list.
chunk_text(text, chunk_size, overlap) ==
  IF RangeStep(chunk_size, overlap) = 0
  THEN [raised |-> TRUE, chunks |-> <<>>]
  ELSE [raised |-> FALSE,
        chunks |-> ChunkLoop(encode(text), 0, chunk_size, overlap, <<>>)]

\* The same call, one loop iteration per step.
ChunkInit ==
  /\ ct_pc = "idle"
  /\ ct_text \in SeqsUpTo(Alphabet, MaxTextLen)
  /\ ct_size \in 1..MaxChunkSize
  /\ ct_overlap \in 0..MaxOverlap
  /\ ct_tokens = <<>>
  /\ ct_i = 0
  /\ ct_windows = <<>>
  /\ ct_chunks = <<>>
  /\ StoreIdle /\ LoadIdle /\ QueryIdle /\ ShellIdle

\* tokens = encode(text); chunks = []; range(...) is built
ChunkCall ==
  /\ ct_pc = "idle"
  /\ ct_tokens' = encode(ct_text)
  /\ ct_pc' = IF RangeStep(ct_size, ct_overlap) = 0 THEN "raised" ELSE "loop"
  /\ UNCHANGED <<ct_text, ct_size, ct_overlap, ct_i, ct_windows, ct_chunks>>
  /\ UNCHANGED ct_others

\* one pass through the loop body (lines 26-31); ct_windows records the
\* successive values of chunk_tokens
ChunkIterate ==
  /\ ct_pc = "loop"
  /\ InRange(ct_i, Len(ct_tokens), RangeStep(ct_size, ct_overlap))
  /\ LET chunk_tokens == ChunkTokens(ct_tokens, ct_i, ct_size)
     IN  /\ ct_windows' = Append(ct_windows, chunk_tokens)
         /\ ct_chunks' = Append(ct_chunks, decode(chunk_tokens))
  /\ IF WindowReachesEnd(ct_i, ct_size, Len(ct_tokens))
     THEN ct_pc' = "returned" /\ ct_i' = ct_i
     ELSE ct_pc' = "loop" /\ ct_i' = ct_i + RangeStep(ct_size, ct_overlap)
  /\ UNCHANGED <<ct_text, ct_size, ct_overlap, ct_tokens>>
  /\ UNCHANGED ct_others

\* the range is exhausted: return chunks (line 33)
ChunkExhausted ==
  /\ ct_pc = "loop"
  /\ ~InRange(ct_i, Len(ct_tokens), RangeStep(ct_size, ct_overlap))
  /\ ct_pc' = "returned"
  /\ UNCHANGED <<ct_text, ct_size, ct_overlap, ct_tokens, ct_i, ct_windows, ct_chunks>>
  /\ UNCHANGED ct_others

ChunkNext == ChunkCall \/ ChunkIterate \/ ChunkExhausted

SpecChunk == ChunkInit /\ [][ChunkNext]_vars

--------------------------------------------------------------------------
(* VectorStore.add_documents (vector_store.py lines 35-68)                 *)

\* chunk_text's defaults: chunk_size = 512, overlap = 50
DefaultChunkSize == 512
DefaultOverlap == 50

\* str() of a non-negative integer, as an f-string renders it.
DigitChars == <<"0", "1", "2", "3", "4", "5", "6", "7", "8", "9">>
RECURSIVE Digits(_)
Digits(n) ==
  IF n < 10 THEN <<DigitChars[n + 1]>>
  ELSE Digits(n \div 10) \o <<DigitChars[(n % 10) + 1]>>

\* A value read from the JSON file: a number, a string or null.  A
\* document's id, title and username are such values, passed through as read.
IntId(n) == [kind |-> "int", n |-> n, s |-> <<>>]
StrId(s) == [kind |-> "str", n |-> 0, s |-> s]
JsonNull == [kind |-> "null", n |-> 0, s |-> <<>>]
Str(id) ==
  IF id.kind = "int" THEN Digits(id.n)
  ELSE IF id.kind = "str" THEN id.s
  ELSE <<"N", "o", "n", "e">>

\* f"{doc['id']}_{i}"
CompositeIdByTotal(id, i, total) == Str(id) \o <<"_">> \o Digits(total)
CompositeId(id, i, total) == Str(id) \o <<"_">> \o Digits(i)

\* the metadata dict of chunk i of doc (lines 47-54)
MetadataOneBased(doc, i, total) ==
  [publication_id |-> doc.id, title |-> doc.title, username |-> doc.username,
   source |-> doc.source, chunk_index |-> i + 1, total_chunks |-> total]
Metadata(doc, i, total) ==
  [publication_id |-> doc.id, title |-> doc.title, username |-> doc.username,
   source |-> doc.source, chunk_index |-> i, total_chunks |-> total]

\* The embedding model (SentenceTransformer.encode, line 59), abstracted to
\* a deterministic function of the text into a two-dimensional vector.
Embed(text) ==
  <<Len(text) % 5, IF text = <<>> THEN 0 ELSE IF text[1] = "a" THEN 1 ELSE 2>>

\* The document texts the model draws from: an empty text (no token), a
\* short text (two tokens, one chunk) and a text of 515 tokens (two chunks).
EmptyText == <<>>
ShortText == <<"a", "b", "b">>
LongText == [k \in 1..525 |-> IF k > 20 THEN "b" ELSE IF k % 2 = 1 THEN "a" ELSE "b"]
Corpus == {EmptyText, ShortText, LongText}

\* chunk_text is a function of the text alone: its values on the corpus,
\* with the default chunk_size and overlap, computed once.
DefaultChunks == [c \in Corpus |-> chunk_text(c, DefaultChunkSize, DefaultOverlap).chunks]

\* self.chunk_text(doc['content'])  (line 43)
ChunksOf(content) == DefaultChunks[content]

\* The inner loop (lines 45-55) for one document: what it appends to
\* all_chunks, all_metadatas and all_ids.
DocEntries(doc) ==
  LET chunks == ChunksOf(doc.content)
  IN  [k \in 1..Len(chunks) |->
         [id |-> CompositeId(doc.id, k - 1, Len(chunks)),
          document |-> chunks[k],
          metadata |-> Metadata(doc, k - 1, Len(chunks))]]

\* The outer loop (lines 41-55) over the documents, in order.
RECURSIVE AllEntries(_, _)
AllEntries(documents, k) ==
  IF k > Len(documents) THEN <<>>
  ELSE DocEntries(documents[k]) \o AllEntries(documents, k + 1)

\* collection.add(embeddings, documents, metadatas, ids)  (lines 60-65).
\* The collection is a map from id to record.  A batch that names an id
\* twice is rejected as a whole: the store validates the ids of a batch and
\* raises.  A record added under an id that is not stored is inserted; for
\* an id that is already stored, add keeps the stored record and drops the
\* new one (it is the store's upsert, which the code does not call, that
\* would replace it).
IdsUnique(entries) ==
  \A j, k \in 1..Len(entries) : j # k => entries[j].id # entries[k].id

CollectionAdd(collection, entries) ==
  LET ids == {entries[k].id : k \in 1..Len(entries)}
      at(id) == CHOOSE k \in 1..Len(entries) : entries[k].id = id
  IN  IF ~IdsUnique(entries)
      THEN [raised |-> TRUE, collection |-> collection]
      ELSE [raised |-> FALSE,
            collection |->
              [id \in (DOMAIN collection) \cup ids |->
                 IF id \in DOMAIN collection
                 THEN collection[id]
                 ELSE [embedding |-> Embed(entries[at(id)].document),
                       document |-> entries[at(id)].document,
                       metadata |-> entries[at(id)].metadata]]]

\* if all_chunks: ... collection.add(...)   (lines 58-65)
AddIfAny(collection, entries) ==
  IF entries # <<>> THEN CollectionAdd(collection, entries)
  ELSE [raised |-> FALSE, collection |-> collection]

\* return len(all_chunks)
ReturnDocCount(documents, entries) == Len(documents)
ReturnValue(documents, entries) == Len(entries)

\* The call as a whole.  When the store raises, the exception leaves
\* add_documents (nothing catches it) and there is no returned value.
add_documents(collection, documents) ==
  LET entries == AllEntries(documents, 1)
      added == AddIfAny(collection, entries)
  IN  [raised |-> added.raised,
       collection |-> added.collection,
       ids |-> [k \in 1..Len(entries) |-> entries[k].id],
       ret |-> IF added.raised THEN -1 ELSE ReturnValue(documents, entries)]

\* The documents the model draws from: two versions of publication 1, a
\* publication whose id is the string "1", and publication 2 with and
\* without text.
Doc(id, title, content) ==
  [id |-> id, title |-> StrId(title), username |-> StrId(<<"u">>),
   content |-> content, source |-> "json"]
Docs == {Doc(IntId(1), <<"T", "1">>, LongText), Doc(IntId(1), <<"T", "1">>, ShortText),
         Doc(StrId(<<"1">>), <<"S", "1">>, ShortText),
         Doc(IntId(2), <<"T", "2">>, ShortText), Doc(IntId(2), <<"T", "2">>, EmptyText)}
Batches == SeqsUpTo(Docs, MaxBatch)

StoreInit ==
  /\ StoreIdle
  /\ ChunkIdle /\ LoadIdle /\ QueryIdle /\ ShellIdle

AddDocuments ==
  \E documents \in Batches :
    LET r == add_documents(st_collection, documents)
    IN  /\ st_collection' = r.collection
        /\ st_outcome' = IF r.raised THEN "raised" ELSE "returned"
        /\ st_docs' = documents
        /\ st_ids' = r.ids
        /\ st_ret' = r.ret
        /\ st_repeat' = (st_outcome = "returned" /\ documents = st_docs)
        /\ UNCHANGED st_others

StoreNext == AddDocuments

SpecStore == StoreInit /\ [][StoreNext]_vars

--------------------------------------------------------------------------
(* load_publications_from_json (json_processor.py lines 5-37)              *)

\* len(content) > 100
MinContentLength == 100

Untitled == <<"U", "n", "t", "i", "t", "l", "e", "d">>

\* An element of the parsed array: a JSON object (obj, with its keys and
\* values in fields) or some other JSON value.
JsonObject(fields) == [obj |-> TRUE, fields |-> fields]
NotAnObject == [obj |-> FALSE, fields |-> <<>>]

\* publication.get(key, default)
Get(publication, key, default) ==
  IF key \in DOMAIN publication.fields THEN publication.fields[key] ELSE default

\* if len(content) > 100
IncludedAtLeast(content) == Len(content.s) >= MinContentLength
Included(content) == Len(content.s) > MinContentLength

\* the dict appended to documents (lines 24-30)
LoadedDocument(publication_id, title, username, content) ==
  [id |-> publication_id, title |-> title, username |-> username,
   content |-> content.s, source |-> "json"]

\* The exceptions the try block can raise, and which of them `except
\* Exception` catches: all of them are subclasses of Exception.
LoadExceptions ==
  {"FileNotFoundError", "UnicodeDecodeError", "JSONDecodeError", "TypeError",
   "AttributeError"}
CaughtJsonErrorsOnly(exc) == exc \in {"JSONDecodeError", "UnicodeDecodeError"}
Caught(exc) == exc \in LoadExceptions

\* where control goes when exc is raised inside the try block
RaiseInLoad(exc) ==
  /\ ld_exc' = exc
  /\ ld_pc' = IF Caught(exc) THEN "except" ELSE "raised"

\* The publication records the model draws from.
Content(n) == StrId(Rep("b", n))
Publications ==
  { \* every field present, content just over the threshold
    JsonObject([publication_description |-> Content(MinContentLength + 1),
                title |-> StrId(<<"T", "1">>), id |-> IntId(1),
                username |-> StrId(<<"u">>)]),
    \* every field present, content exactly at the threshold
    JsonObject([publication_description |-> Content(MinContentLength),
                title |-> StrId(<<"T", "2">>), id |-> IntId(2),
                username |-> StrId(<<"u">>)]),
    \* only the content
    JsonObject([publication_description |-> Content(MinContentLength + 2)]),
    \* no content
    JsonObject([title |-> StrId(<<"T", "3">>), id |-> StrId(<<"3">>)]),
    \* a null title, which is not a missing one
    JsonObject([publication_description |-> Content(MinContentLength + 1),
                title |-> JsonNull, id |-> IntId(4)]),
    \* a null content: len(None) raises TypeError
    JsonObject([publication_description |-> JsonNull, id |-> IntId(5)]),
    \* an array element that is not an object: .get raises AttributeError
    NotAnObject }

\* What the path leads to: no file, bytes that are not UTF-8, text that is
\* not JSON, a JSON value that cannot be iterated (a number), or an array.
File(kind, data) == [kind |-> kind, data |-> data]
Files ==
  {File(k, <<>>) : k \in {"missing", "undecodable", "malformed", "scalar"}}
  \cup {File("array", d) : d \in SeqsUpTo(Publications, MaxRecords)}

LoadInit ==
  /\ ld_pc = "start"
  /\ ld_file \in Files
  /\ ld_data = <<>>
  /\ ld_k = 0
  /\ ld_documents = <<>>
  /\ ld_exc = "none"
  /\ ld_result = <<>>
  /\ ChunkIdle /\ StoreIdle /\ QueryIdle /\ ShellIdle

\* with open(json_file_path, 'r', encoding='utf-8') as file  (line 10)
LoadOpen ==
  /\ ld_pc = "start"
  /\ IF ld_file.kind = "missing"
     THEN RaiseInLoad("FileNotFoundError")
     ELSE ld_pc' = "opened" /\ ld_exc' = ld_exc
  /\ UNCHANGED <<ld_file, ld_data, ld_k, ld_documents, ld_result>>
  /\ UNCHANGED ld_others

\* data = json.load(file); documents = []  (lines 11-13)
LoadParse ==
  /\ ld_pc = "opened"
  /\ IF ld_file.kind = "undecodable"
     THEN RaiseInLoad("UnicodeDecodeError") /\ UNCHANGED <<ld_data, ld_k>>
     ELSE IF ld_file.kind = "malformed"
     THEN RaiseInLoad("JSONDecodeError") /\ UNCHANGED <<ld_data, ld_k>>
     ELSE /\ ld_data' = ld_file.data
          /\ ld_k' = 1
          /\ ld_pc' = "loop"
          /\ ld_exc' = ld_exc
  /\ UNCHANGED <<ld_file, ld_documents, ld_result>>
  /\ UNCHANGED ld_others

\* for publication in data, when data is not iterable  (line 15)
LoadNotIterable ==
  /\ ld_pc = "loop"
  /\ ld_file.kind = "scalar"
  /\ RaiseInLoad("TypeError")
  /\ UNCHANGED <<ld_file, ld_data, ld_k, ld_documents, ld_result>>
  /\ UNCHANGED ld_others

\* one pass through the loop body  (lines 15-30)
LoadRecord ==
  /\ ld_pc = "loop"
  /\ ld_file.kind = "array"
  /\ ld_k <= Len(ld_data)
  /\ LET publication == ld_data[ld_k]
         content == Get(publication, "publication_description", StrId(<<>>))
         title == Get(publication, "title", StrId(Untitled))
         publication_id == Get(publication, "id", StrId(<<>>))
         username == Get(publication, "username", StrId(<<>>))
     IN  IF ~publication.obj
         THEN RaiseInLoad("AttributeError") /\ UNCHANGED <<ld_k, ld_documents>>
         ELSE IF content.kind # "str"
         THEN RaiseInLoad("TypeError") /\ UNCHANGED <<ld_k, ld_documents>>
         ELSE /\ ld_documents' =
                   IF Included(content)
                   THEN Append(ld_documents,
                               LoadedDocument(publication_id, title, username, content))
                   ELSE ld_documents
              /\ ld_k' = ld_k + 1
              /\ UNCHANGED <<ld_pc, ld_exc>>
  /\ UNCHANGED <<ld_file, ld_data, ld_result>>
  /\ UNCHANGED ld_others

\* return documents  (lines 32-33)
LoadReturn ==
  /\ ld_pc = "loop"
  /\ ld_file.kind = "array"
  /\ ld_k > Len(ld_data)
  /\ ld_result' = ld_documents
  /\ ld_pc' = "returned"
  /\ UNCHANGED <<ld_file, ld_data, ld_k, ld_documents, ld_exc>>
  /\ UNCHANGED ld_others

\* except Exception as e: ... return []  (lines 35-37)
LoadExcept ==
  /\ ld_pc = "except"
  /\ ld_result' = <<>>
  /\ ld_pc' = "returned"
  /\ UNCHANGED <<ld_file, ld_data, ld_k, ld_documents, ld_exc>>
  /\ UNCHANGED ld_others

LoadNext ==
  LoadOpen \/ LoadParse \/ LoadNotIterable \/ LoadRecord \/ LoadReturn \/ LoadExcept

SpecLoad == LoadInit /\ [][LoadNext]_vars

--------------------------------------------------------------------------
(* VectorStore.search (vector_store.py lines 70-88) and                    *)
(* GroqRAGSystem.query (rag_pipeline.py lines 28-105)                      *)

\* The distance the store reports between two embeddings (squared L2).
Distance(u, v) == (u[1] - v[1]) * (u[1] - v[1]) + (u[2] - v[2]) * (u[2] - v[2])

\* collection.query(query_embeddings, n_results): the ids of the n_results
\* nearest records (all of them when the collection holds fewer), nearest
\* first; records at the same distance come in either order.
NearestIds(collection, query_embedding, n_results) ==
  LET ids == DOMAIN collection
      m == Min(n_results, Cardinality(ids))
      dist(id) == Distance(collection[id].embedding, query_embedding)
  IN  {r \in [1..m -> ids] :
         /\ \A j, k \in 1..m : j < k => (r[j] # r[k] /\ dist(r[j]) <= dist(r[k]))
         /\ \A id \in ids \ {r[k] : k \in 1..m} :
               \A k \in 1..m : dist(r[k]) <= dist(id)}

\* formatted_results, for one ranking of the store (lines 80-88)
FormattedResults(collection, query_embedding, ranking) ==
  [k \in 1..Len(ranking) |->
     [content |-> collection[ranking[k]].document,
      metadata |-> collection[ranking[k]].metadata,
      distance |-> Distance(collection[ranking[k]].embedding, query_embedding)]]

\* every list search(query, n_results) can return
search(collection, query, n_results) ==
  {FormattedResults(collection, Embed(query), r) :
     r \in NearestIds(collection, Embed(query), n_results)}

\* _format_context: one part per result, with its number, its relevance
\* 1 - distance, the title, the author and the content (lines 47-65)
format_context(search_results) ==
  [k \in 1..Len(search_results) |->
     [document |-> k,
      relevance |-> 1 - search_results[k].distance,
      title |-> search_results[k].metadata.title,
      author |-> search_results[k].metadata.username,
      content |-> search_results[k].content]]

\* _create_prompt: the fixed framing around the context and the question
create_prompt(question, context) == <<[context |-> context, question |-> question]>>

\* What self.client.chat.completions.create and the read of
\* response.choices[0].message.content can do: give the model's text, raise
\* (an API or network error, with its message), or give a response without
\* choices, whose choices[0] raises IndexError.  Texts and messages of the
\* LLM client are opaque strings.
LlmOutcomes ==
  {[kind |-> "answer", text |-> t] : t \in {"An answer.", ""}}
  \cup {[kind |-> "api_error", text |-> t] : t \in {"rate limit", "timeout"}}
  \cup {[kind |-> "no_choices", text |-> "list index out of range"]}

\* _get_groq_response (lines 89-105): the value it returns, or raised
GroqResponseUncaught(outcome) ==
  IF outcome.kind = "answer"
  THEN [raised |-> FALSE, value |-> outcome.text]
  ELSE [raised |-> TRUE, value |-> outcome.text]
GroqResponse(outcome) ==
  IF outcome.kind = "answer"
  THEN [raised |-> FALSE, value |-> outcome.text]
  ELSE [raised |-> FALSE, value |-> "Error generating response: " \o outcome.text]

\* return response, search_results  (line 45)
QueryReturn(response, search_results, context) == <<response, search_results>>

\* The collections a query can meet: whatever one add_documents call on an
\* empty store has left in it.
Collections == {add_documents(EmptyCollection, b).collection : b \in Batches}
Questions == {<<"a">>, <<"b", "b", "a">>}

QueryInit ==
  /\ q_pc = "Idle"
  /\ q_question \in Questions
  /\ q_n \in 1..MaxResults
  /\ q_search_results = <<>>
  /\ q_index_results = <<>>
  /\ q_context = <<>>
  /\ q_prompt = <<>>
  /\ q_llm = NoLlmCall
  /\ q_ret = <<>>
  /\ st_collection \in Collections
  /\ NoCallYet
  /\ ChunkIdle /\ LoadIdle /\ ShellIdle

\* query is called (line 28)
QueryStart ==
  /\ q_pc = "Idle"
  /\ q_pc' = "Searching"
  /\ UNCHANGED <<q_question, q_n, q_search_results, q_index_results, q_context,
                 q_prompt, q_llm, q_ret>>
  /\ UNCHANGED q_others

\* search_results = self.vector_store.search(question, n_results)  (line 33)
QuerySearch ==
  /\ q_pc = "Searching"
  /\ \E results \in search(st_collection, q_question, q_n) :
        /\ q_index_results' = results
        /\ q_search_results' = results
  /\ q_pc' = "ContextFormatting"
  /\ UNCHANGED <<q_question, q_n, q_context, q_prompt, q_llm, q_ret>>
  /\ UNCHANGED q_others

\* the embedding model or the store raises: nothing in query catches it
QuerySearchRaises ==
  /\ q_pc = "Searching"
  /\ q_pc' = "Raised"
  /\ UNCHANGED <<q_question, q_n, q_search_results, q_index_results, q_context,
                 q_prompt, q_llm, q_ret>>
  /\ UNCHANGED q_others

\* context = self._format_context(search_results)  (line 36)
QueryFormatContext ==
  /\ q_pc = "ContextFormatting"
  /\ q_context' = format_context(q_search_results)
  /\ q_pc' = "PromptBuilding"
  /\ UNCHANGED <<q_question, q_n, q_search_results, q_index_results, q_prompt,
                 q_llm, q_ret>>
  /\ UNCHANGED q_others

\* prompt = self._create_prompt(question, context)  (line 39)
QueryCreatePrompt ==
  /\ q_pc = "PromptBuilding"
  /\ q_prompt' = create_prompt(q_question, q_context)
  /\ q_pc' = "AwaitingModelResponse"
  /\ UNCHANGED <<q_question, q_n, q_search_results, q_index_results, q_context,
                 q_llm, q_ret>>
  /\ UNCHANGED q_others

\* response = self._get_groq_response(prompt); return response,
\* search_results  (lines 43-45)
QueryGroqResponse ==
  /\ q_pc = "AwaitingModelResponse"
  /\ \E outcome \in LlmOutcomes :
        LET response == GroqResponse(outcome)
        IN  /\ q_llm' = outcome
            /\ IF response.raised
               THEN q_pc' = "Raised" /\ q_ret' = q_ret
               ELSE /\ q_pc' = "Done"
                    /\ q_ret' = QueryReturn(response.value, q_search_results, q_context)
  /\ UNCHANGED <<q_question, q_n, q_search_results, q_index_results, q_context,
                 q_prompt>>
  /\ UNCHANGED q_others

QueryNext ==
  \/ QueryStart \/ QuerySearch \/ QuerySearchRaises \/ QueryFormatContext
  \/ QueryCreatePrompt \/ QueryGroqResponse

SpecQuery == QueryInit /\ [][QueryNext]_vars

--------------------------------------------------------------------------
(* main's read loop (rag_pipeline.py lines 127-154)                        *)

\* str.strip(): the line without its leading and trailing blanks
RECURSIVE StripLeft(_)
StripLeft(line) ==
  IF line # <<>> /\ Head(line) = " " THEN StripLeft(Tail(line)) ELSE line
RECURSIVE StripRight(_)
StripRight(line) ==
  IF line # <<>> /\ line[Len(line)] = " "
  THEN StripRight(SubSeq(line, 1, Len(line) - 1)) ELSE line
Strip(line) == StripRight(StripLeft(line))

\* str.lower() on the letters the model's lines use
LowerChar(c) ==
  CASE c = "Q" -> "q" [] c = "U" -> "u" [] c = "I" -> "i" [] c = "T" -> "t"
    [] c = "E" -> "e" [] c = "X" -> "x" [] c = "H" -> "h" [] OTHER -> c
LowerNone(line) == line
Lower(line) == [k \in 1..Len(line) |-> LowerChar(line[k])]

\* question.lower() in ['quit', 'exit', 'q']  (line 130)
ExitWords == {<<"q", "u", "i", "t">>, <<"e", "x", "i", "t">>, <<"q">>}
IsExit(question) == Lower(question) \in ExitWords

\* if not question  (line 134)
IsBlank(question) == question = <<>>

\* The lines a user may type.
Lines ==
  {<<"q", "u", "i", "t">>, <<"E", "x", "i", "T">>, <<" ", "Q", " ">>,
   <<>>, <<" ", " ">>, <<"h", "i">>, <<"q", "u", "i", "t", "e">>}

\* The loop starts once main has built the system and printed its banner.
\* The input is a finite sequence of lines, after which input() meets the
\* end of the stream.
ShellInit ==
  /\ sh_pc = "input"
  /\ sh_input \in SeqsUpTo(Lines, MaxLines)
  /\ sh_read = <<>>
  /\ sh_question = <<>>
  /\ sh_turns = <<>>
  /\ sh_exit = "none"
  /\ ChunkIdle /\ StoreIdle /\ LoadIdle /\ QueryIdle

\* question = input(...).strip() and the two tests on it  (lines 128-135)
ShellRead ==
  /\ sh_pc = "input"
  /\ sh_input # <<>>
  /\ LET question == Strip(Head(sh_input))
     IN  /\ sh_question' = question
         /\ IF IsExit(question)
            THEN sh_pc' = "ended" /\ sh_exit' = "quit"
            ELSE IF IsBlank(question)
            THEN sh_pc' = "input" /\ sh_exit' = sh_exit
            ELSE sh_pc' = "turn" /\ sh_exit' = sh_exit
  /\ sh_read' = Append(sh_read, Head(sh_input))
  /\ sh_input' = Tail(sh_input)
  /\ UNCHANGED sh_turns
  /\ UNCHANGED sh_others

\* input() at the end of the stream raises EOFError; the call is outside
\* the try block, so the exception leaves the loop and main  (line 128)
ShellEndOfInput ==
  /\ sh_pc = "input"
  /\ sh_input = <<>>
  /\ sh_pc' = "ended"
  /\ sh_exit' = "EOFError"
  /\ UNCHANGED <<sh_input, sh_read, sh_question, sh_turns>>
  /\ UNCHANGED sh_others

\* the try block runs to its end: the query returned (with the model's
\* answer or with an in-band error string) and was printed  (lines 139-150)
ShellTurnAnswered ==
  /\ sh_pc = "turn"
  /\ sh_turns' = Append(sh_turns, "answered")
  /\ sh_pc' = "input"
  /\ UNCHANGED <<sh_input, sh_read, sh_question, sh_exit>>
  /\ UNCHANGED sh_others

\* the query or the printing raised an Exception: it is caught, reported,
\* and the loop goes on  (lines 152-154)
ShellTurnRaised ==
  /\ sh_pc = "turn"
  /\ sh_turns' = Append(sh_turns, "exception")
  /\ sh_pc' = "input"
  /\ UNCHANGED <<sh_input, sh_read, sh_question, sh_exit>>
  /\ UNCHANGED sh_others

ShellNext == ShellRead \/ ShellEndOfInput \/ ShellTurnAnswered \/ ShellTurnRaised

SpecShell == ShellInit /\ [][ShellNext]_vars

--------------------------------------------------------------------------
(* Claims about chunk_text, checked under SpecChunk *)

CeilDiv(a, b) == (a + b - 1) \div b

ct_L == Len(ct_tokens)
ct_valid == ct_overlap < ct_size

\* The k-th window (k = 0, 1, ...) of the sliding-window description:
\* tokens [k*(C-O), min(k*(C-O)+C, L)).
WindowAt(k) ==
  SubSeq(ct_tokens, k * (ct_size - ct_overlap) + 1,
         Min(k * (ct_size - ct_overlap) + ct_size, ct_L))

\* The first window followed by every later window without its first O tokens.
RECURSIVE Reassemble(_, _, _)
Reassemble(windows, k, o) ==
  IF k > Len(windows) THEN <<>>
  ELSE (IF k = 1 THEN windows[k] ELSE SubSeq(windows[k], o + 1, Len(windows[k])))
       \o Reassemble(windows, k + 1, o)

\* C1 as stated: for every L >= 0 and 0 <= O < C the call returns
\* ceil((L-O)/(C-O)) chunks when L > C and exactly one chunk, the whole
\* text, when L <= C; the result is never empty.
C1_AsStated ==
  (ct_pc = "returned" /\ ct_valid) =>
     /\ ct_chunks # <<>>
     /\ IF ct_L > ct_size
        THEN Len(ct_chunks) = CeilDiv(ct_L - ct_overlap, ct_size - ct_overlap)
        ELSE ct_chunks = <<ct_text>>

\* C1 amended: with 0 <= O < C the call always returns (it never raises);
\* it returns ceil((L-O)/(C-O)) chunks when L > C, exactly one chunk equal
\* to the whole text when 1 <= L <= C, and the empty list when L = 0.
C1_ChunkCount ==
  /\ ct_valid => ct_pc # "raised"
  /\ (ct_pc = "returned" /\ ct_valid) =>
        IF ct_L > ct_size
        THEN Len(ct_chunks) = CeilDiv(ct_L - ct_overlap, ct_size - ct_overlap)
        ELSE IF ct_L >= 1 THEN ct_chunks = <<ct_text>>
        ELSE ct_chunks = <<>>

\* a text longer than one chunk, with a real overlap, has been chunked
C1_Witness ==
  /\ ct_pc = "returned" /\ ct_valid /\ ct_overlap > 0
  /\ ct_L > ct_size /\ Len(ct_chunks) >= 3

\* C2: for L >= 1 and 0 <= O < C the k-th chunk is the decoded token window
\* [k*(C-O), min(k*(C-O)+C, L)); every chunk after the first begins with
\* exactly the last O tokens of the chunk before it; and the first chunk
\* followed by each later chunk without its first O tokens is the original
\* token sequence (whose decoding is the original text).
C2_Windows ==
  (ct_pc = "returned" /\ ct_valid /\ ct_L >= 1) =>
     /\ Len(ct_windows) = Len(ct_chunks)
     /\ \A k \in 1..Len(ct_chunks) :
           /\ ct_windows[k] = WindowAt(k - 1)
           /\ ct_chunks[k] = decode(WindowAt(k - 1))
     /\ \A k \in 2..Len(ct_windows) :
           /\ Len(ct_windows[k]) >= ct_overlap
           /\ Len(ct_windows[k - 1]) >= ct_overlap
           /\ SubSeq(ct_windows[k], 1, ct_overlap)
                = SubSeq(ct_windows[k - 1],
                         Len(ct_windows[k - 1]) - ct_overlap + 1,
                         Len(ct_windows[k - 1]))
     /\ Reassemble(ct_windows, 1, ct_overlap) = ct_tokens
     /\ decode(Reassemble(ct_windows, 1, ct_overlap)) = ct_text

\* several overlapping windows, the last one shorter than chunk_size, over a
\* text in which a merged token occurs
C2_Witness ==
  /\ ct_pc = "returned" /\ ct_valid /\ ct_overlap > 0
  /\ Len(ct_windows) >= 3
  /\ Len(ct_windows[Len(ct_windows)]) < ct_size
  /\ \E j \in 1..ct_L : ct_tokens[j] = TokAB

\* C9 as stated: with chunk_size <= overlap the call never ends, neither
\* returning a list nor signalling an error.
C9_AsStated ==
  (ct_size <= ct_overlap) => ct_pc \notin {"returned", "raised"}

\* C9 amended: with chunk_size <= overlap the loop body never runs and the
\* call ends at once: range() raises ValueError when chunk_size = overlap
\* (step 0), and when chunk_size < overlap (negative step) the range is
\* empty and the empty list is returned.
C9_Degenerate ==
  (ct_size <= ct_overlap) =>
     /\ ct_chunks = <<>> /\ ct_windows = <<>> /\ ct_i = 0
     /\ (ct_size = ct_overlap) => ct_pc \in {"idle", "raised"}
     /\ (ct_size < ct_overlap) =>
           /\ ct_pc \in {"idle", "loop", "returned"}
           /\ ct_pc = "loop" => ENABLED ChunkExhausted

\* both degenerate outcomes on a non-empty text
C9_Witness ==
  /\ ct_L >= 1
  /\ \/ ct_size = ct_overlap /\ ct_pc = "raised"
     \/ ct_size < ct_overlap /\ ct_pc = "returned"

--------------------------------------------------------------------------
(* Claims about add_documents, checked under SpecStore *)

Distinct(seq) == \A j, k \in 1..Len(seq) : j # k => seq[j] # seq[k]
Range(seq) == {seq[k] : k \in 1..Len(seq)}

RECURSIVE SumChunkCounts(_, _)
SumChunkCounts(documents, k) ==
  IF k > Len(documents) THEN 0
  ELSE Len(ChunksOf(documents[k].content)) + SumChunkCounts(documents, k + 1)

\* two different positions of the list hold documents that both yield chunks
\* and whose ids have the same string form
SharedIdForm(documents) ==
  \E j, k \in 1..Len(documents) :
     /\ j # k
     /\ Str(documents[j].id) = Str(documents[k].id)
     /\ ChunksOf(documents[j].content) # <<>>
     /\ ChunksOf(documents[k].content) # <<>>

\* the record of chunk i of some document of the list, as lines 47-55 build
\* it: its id, text and metadata
RecordOf(documents, id, r) ==
  \E j \in 1..Len(documents) :
     LET d == documents[j]
         chunks == ChunksOf(d.content)
     IN  \E i \in 0..(Len(chunks) - 1) :
            /\ id = Str(d.id) \o <<"_">> \o Digits(i)
            /\ r.document = chunks[i + 1]
            /\ r.metadata.publication_id = d.id
            /\ r.metadata.title = d.title
            /\ r.metadata.username = d.username
            /\ r.metadata.chunk_index = i
            /\ r.metadata.total_chunks = Len(chunks)

\* C3 as stated: for every list of documents (ids not required to be
\* distinct) the call returns the sum of the documents' chunk counts, which
\* is the number of records the call inserted into the collection (those
\* stored after it under ids that were not stored before it), all generated
\* composite ids being pairwise distinct; a list that yields no chunk leaves
\* the collection unchanged and returns 0.
C3_AsStated ==
  [][ LET n == SumChunkCounts(st_docs', 1)
          inserted == (DOMAIN st_collection') \ (DOMAIN st_collection)
      IN  /\ st_outcome' = "returned"
          /\ st_ret' = n
          /\ Distinct(st_ids')
          /\ st_ret' = Cardinality(inserted)
          /\ n = 0 => (st_collection' = st_collection /\ st_ret' = 0)
    ]_vars

\* C3 amended: the generated composite ids are pairwise distinct exactly
\* when no two chunk-yielding documents of the list have ids of the same
\* string form.  In that case the call returns the sum of the documents'
\* chunk counts, which is the number of ids it generated; after the call a
\* record is stored under each generated id and every record stored before
\* is as it was.  A generated id that was not stored before holds the
\* record the call built for it; one that was already stored keeps its
\* stored record.  So the returned value is the number of records the call
\* inserted exactly when none of the generated ids was stored before.
\* Otherwise (two chunk-yielding documents share an id's string form) the
\* batch handed to the store names an id twice, the store rejects it and
\* the call raises with the collection unchanged.  When the list yields no
\* chunks the collection is left unchanged and 0 is returned.
C3_Returned ==
  [][ LET n == SumChunkCounts(st_docs', 1)
          ids == Range(st_ids')
          before == DOMAIN st_collection
          after == DOMAIN st_collection'
      IN  /\ Len(st_ids') = n
          /\ Distinct(st_ids') <=> ~SharedIdForm(st_docs')
          /\ ~SharedIdForm(st_docs') =>
                /\ st_outcome' = "returned"
                /\ st_ret' = n
                /\ Cardinality(ids) = n
                /\ after = before \cup ids
                /\ \A id \in before : st_collection'[id] = st_collection[id]
                /\ \A id \in ids \ before : RecordOf(st_docs', id, st_collection'[id])
                /\ (st_ret' = Cardinality(after \ before)) <=> (ids \cap before = {})
          /\ SharedIdForm(st_docs') =>
                /\ st_outcome' = "raised"
                /\ st_collection' = st_collection
          /\ n = 0 => (st_collection' = st_collection /\ st_ret' = 0)
    ]_vars

\* a list of two documents of different ids, three chunks in all, has been
\* added twice in a row: the second call returned 3 and the collection holds
\* the three records of the first
C3_Witness ==
  /\ st_repeat /\ st_outcome = "returned"
  /\ Len(st_docs) = 2 /\ st_ret = 3 /\ Len(st_ids) = 3
  /\ DOMAIN st_collection = Range(st_ids)

Stored == {st_collection[id] : id \in DOMAIN st_collection}

--------------------------------------------------------------------------
(* Claims about load_publications_from_json, checked under SpecLoad *)

\* a publication record as the loader's contract describes it: an object
\* whose publication_description, when present, is a string
WellFormed(publication) ==
  /\ publication.obj
  /\ "publication_description" \in DOMAIN publication.fields
        => publication.fields["publication_description"].kind = "str"

HasLongContent(publication) ==
  /\ "publication_description" \in DOMAIN publication.fields
  /\ Len(publication.fields["publication_description"].s) > 100

FieldOr(publication, key, default) ==
  IF key \in DOMAIN publication.fields THEN publication.fields[key] ELSE StrId(default)

Mapped(publication) ==
  [id |-> FieldOr(publication, "id", <<>>),
   title |-> FieldOr(publication, "title", Untitled),
   username |-> FieldOr(publication, "username", <<>>),
   content |-> publication.fields["publication_description"].s,
   source |-> "json"]

\* the records with long content, in input order, each mapped
RECURSIVE FilteredDocuments(_, _)
FilteredDocuments(data, k) ==
  IF k > Len(data) THEN <<>>
  ELSE (IF HasLongContent(data[k]) THEN <<Mapped(data[k])>> ELSE <<>>)
       \o FilteredDocuments(data, k + 1)

ld_array == ld_file.kind = "array"
ld_wellformed == \A k \in 1..Len(ld_file.data) : WellFormed(ld_file.data[k])

\* C5: for every JSON array of publication records the loader returns the
\* input-order subsequence of the records whose publication_description is
\* longer than 100 characters, each mapped to {id, title, username, content,
\* source = 'json'} with a missing title, username or id defaulted to
\* 'Untitled', '' and ''; a record with missing or short content is dropped
\* without effect on the others.
C5_Filtered ==
  (ld_pc = "returned" /\ ld_array /\ ld_wellformed) =>
     /\ ld_exc = "none"
     /\ ld_result = FilteredDocuments(ld_file.data, 1)

\* a file with a kept record between two dropped ones (one at exactly 100
\* characters, one without content), the kept one with defaulted fields
C5_Witness ==
  /\ ld_pc = "returned" /\ ld_array /\ ld_wellformed
  /\ Len(ld_file.data) = 3 /\ Len(ld_result) = 1
  /\ ~HasLongContent(ld_file.data[1])
  /\ HasLongContent(ld_file.data[2])
  /\ ~HasLongContent(ld_file.data[3])
  /\ ld_file.data[1] # ld_file.data[3]
  /\ ld_result[1].title = StrId(Untitled)
  /\ ld_result[1].id = StrId(<<>>)

\* C6: the loader never raises: a missing file, an encoding error,
\* malformed JSON or a failure while processing a record ends in the error
\* outcome, where the empty list is returned; the result is always the empty
\* list or the filtered document list.
C6_NeverRaises ==
  /\ ld_pc # "raised"
  /\ ld_pc = "returned" =>
        /\ ld_exc # "none" => ld_result = <<>>
        /\ ld_exc = "none" => ld_result = FilteredDocuments(ld_file.data, 1)
        /\ (~ld_array \/ ~ld_wellformed) => (ld_exc # "none" /\ ld_result = <<>>)
  /\ ld_pc \in {"start", "opened", "loop", "except"} => ENABLED LoadNext

\* a record failed after another had already been collected, and the
\* empty list came back
C6_Witness ==
  /\ ld_pc = "returned" /\ ld_exc = "TypeError" /\ ld_array
  /\ ld_documents # <<>> /\ ld_result = <<>>

--------------------------------------------------------------------------
(* Claims about query, checked under SpecQuery *)

q_searched == q_pc \in {"ContextFormatting", "PromptBuilding", "AwaitingModelResponse", "Done"}
q_llm_raised == q_llm.kind \in {"api_error", "no_choices"}

\* C7: whenever the search step returns, an exception in the LLM call does
\* not leave query: the call returns the string 'Error generating
\* response: <message>' with the search results exactly as the index gave
\* them; when the LLM call succeeds it returns the model's text with the
\* same unmodified search results.
C7_InBandError ==
  /\ q_searched => q_search_results = q_index_results
  /\ q_llm # NoLlmCall =>
        /\ q_pc = "Done"
        /\ Len(q_ret) = 2
        /\ q_ret[2] = q_index_results
        /\ q_llm_raised => q_ret[1] = "Error generating response: " \o q_llm.text
        /\ q_llm.kind = "answer" => q_ret[1] = q_llm.text
  /\ q_pc = "Raised" => q_llm = NoLlmCall

\* the LLM call raised after a search that found two results
C7_Witness ==
  /\ q_pc = "Done" /\ q_llm.kind = "api_error"
  /\ Len(q_index_results) = 2
  /\ q_ret = <<"Error generating response: timeout", q_index_results>>

--------------------------------------------------------------------------
(* Claims about main's loop, checked under SpecShell *)

\* the lines of the model that are an exit word once trimmed and lower-cased
ExitLines == {<<"q", "u", "i", "t">>, <<"E", "x", "i", "T">>, <<" ", "Q", " ">>}
\* the lines of the model that are blank once trimmed
BlankLines == {<<>>, <<" ", " ">>}

sh_last == sh_read[Len(sh_read)]
sh_asked == {k \in 1..Len(sh_read) : sh_read[k] \notin ExitLines \cup BlankLines}

\* what holds of the loop whatever ends it: a line is handled as an exit
\* word only when it is one, a blank line starts no turn, every other line
\* starts exactly one turn, and a turn that raised is followed by the next
\* read like one that answered
ShellLoopRuns ==
  /\ \A k \in 1..(Len(sh_read) - 1) : sh_read[k] \notin ExitLines
  /\ sh_exit = "quit" <=> (sh_read # <<>> /\ sh_last \in ExitLines)
  /\ sh_pc = "turn" =>
        /\ sh_last \notin ExitLines \cup BlankLines
        /\ Len(sh_turns) + 1 = Cardinality(sh_asked)
  /\ sh_pc # "turn" => Len(sh_turns) = Cardinality(sh_asked)
  /\ sh_pc \in {"input", "turn"} => (sh_exit = "none" /\ ENABLED ShellNext)

\* C8 as stated: the loop ends only after reading a line that is quit, exit
\* or q once trimmed and lower-cased.
C8_AsStated ==
  /\ ShellLoopRuns
  /\ sh_pc = "ended" => (sh_exit = "quit" /\ sh_read # <<>> /\ sh_last \in ExitLines)

\* C8 amended: the loop ends only after reading such a line, or when
\* input() itself raises at the end of the input (EOFError, raised outside
\* the try block, leaves the loop and main); a blank line triggers no
\* query; an exception during a turn is caught and the next line is read.
C8_LoopEnds ==
  /\ ShellLoopRuns
  /\ sh_pc = "ended" =>
        \/ sh_exit = "quit" /\ sh_read # <<>> /\ sh_last \in ExitLines
        \/ /\ sh_exit = "EOFError" /\ sh_input = <<>>
           /\ \A k \in 1..Len(sh_read) : sh_read[k] \notin ExitLines

\* a turn raised, a blank line was skipped, and the loop then ended on an
\* upper-case exit word
C8_Witness ==
  /\ sh_pc = "ended" /\ sh_exit = "quit"
  /\ sh_turns = <<"exception">>
  /\ Len(sh_read) = 3 /\ sh_read[2] \in BlankLines
  /\ sh_last = <<"E", "x", "i", "T">>

==========================================================================
